---- MODULE Spec2Model ----
(***************************************************************************)
(* Rule-based behaviour classifier for pose-estimation output              *)
(* (behaviour_analysis.py), its video overlay (video_overlay.py) and its   *)
(* accuracy evaluation (analyser_accuracy.py).                             *)
(*                                                                         *)
(* Numbers.  Pixel coordinates are integers; a missing coordinate is the   *)
(* value NaN, and every arithmetic or comparison operator below treats it  *)
(* as IEEE-754 does (arithmetic yields NaN, comparisons are false).        *)
(* A Euclidean distance is carried as its square, which is exact for       *)
(* integer coordinates: sqrt(a) < k iff a < k*k for k >= 0.  An angle is   *)
(* carried in whole degrees; atan2 is tabulated on the directions that are *)
(* multiples of 45 degrees, where it is exact, and the poses of the model  *)
(* lie on that grid.  A normalised confidence (v / total) * 100 is carried *)
(* as the exact fraction v*100 / total.                                    *)
(***************************************************************************)
EXTENDS Integers, Sequences, FiniteSets, TLC

VARIABLES data, pc, frame_idx, results, current_row, previous_row,
          raw_confidences, majority_item, output_csv, saved, runs,
          video_frames, fps, start_time, frame_interval, df, ov_pc,
          frame_count, csv_index, current_behavior, current_confidence, out,
          predicted_data, true_data, acc_pc, merged_data, y_true, y_pred,
          accuracy, report, conf_matrix, mismatches

clsVars == <<data, pc, frame_idx, results, current_row, previous_row,
             raw_confidences, majority_item, output_csv, saved, runs>>

ovVars == <<video_frames, fps, start_time, frame_interval, df, ov_pc,
            frame_count, csv_index, current_behavior, current_confidence, out>>

accVars == <<predicted_data, true_data, acc_pc, merged_data, y_true, y_pred,
             accuracy, report, conf_matrix, mismatches>>

vars == <<clsVars, ovVars, accVars>>

(***************************************************************************)
(* Bounds of the model                                                     *)
(***************************************************************************)
MaxFrames == 2
MaxRuns == 2

(***************************************************************************)
(* Floating point with NaN                                                 *)
(***************************************************************************)
NaN == 0 - 1000000000

None == [none |-> TRUE]

isnan(a) == a = NaN

fsub(a, b) == IF isnan(a) \/ isnan(b) THEN NaN ELSE a - b

fadd(a, b) == IF isnan(a) \/ isnan(b) THEN NaN ELSE a + b

fsq(a) == IF isnan(a) THEN NaN ELSE a * a

fhalf(a) == IF isnan(a) THEN NaN ELSE a \div 2

fabs(a) == IF isnan(a) THEN NaN ELSE IF a < 0 THEN 0 - a ELSE a

\* variant: a missing value is read as 0 before comparing
flt_nan_as_zero(a, b) == (IF isnan(a) THEN 0 ELSE a) < (IF isnan(b) THEN 0 ELSE b)

flt(a, b) == ~isnan(a) /\ ~isnan(b) /\ a < b

fgt(a, b) == ~isnan(a) /\ ~isnan(b) /\ a > b

\* sqrt(a) < k and sqrt(a) > k for a distance carried as its square a
dist_lt(a, k) == flt(a, k * k)

dist_gt(a, k) == fgt(a, k * k)

\* degrees(atan2(y, x)) on the 45-degree grid
atan2_deg(y, x) ==
    IF isnan(y) \/ isnan(x) THEN NaN
    ELSE CASE y = 0 /\ x >= 0 -> 0
           [] y = 0 /\ x < 0 -> 180
           [] x = 0 /\ y > 0 -> 90
           [] x = 0 /\ y < 0 -> 0 - 90
           [] x > 0 /\ y = x -> 45
           [] x < 0 /\ y = 0 - x -> 135
           [] x < 0 /\ y = x -> 0 - 135
           [] x > 0 /\ y = 0 - x -> 0 - 45

(***************************************************************************)
(* Geometry helpers of OrangutanBehaviorAnalyzer                           *)
(***************************************************************************)
behaviors == <<"sitting", "walking", "climbing">>

behavior_set == {behaviors[i] : i \in 1..Len(behaviors)}

calculate_distance(x1, y1, x2, y2) ==
    fadd(fsq(fsub(x2, x1)), fsq(fsub(y2, y1)))

calculate_angle(point1, point2, point3) ==
    fabs(fsub(atan2_deg(fsub(point3[2], point2[2]), fsub(point3[1], point2[1])),
              atan2_deg(fsub(point1[2], point2[2]), fsub(point1[1], point2[1]))))

get_joint_coordinates(row, joint) == <<row[joint \o "_x"], row[joint \o "_y"]>>

calculate_velocity(current_frame, previous_frame, joint) ==
    IF previous_frame = None THEN 0
    ELSE LET curr == get_joint_coordinates(current_frame, joint)
             prev == get_joint_coordinates(previous_frame, joint)
         IN  calculate_distance(curr[1], curr[2], prev[1], prev[2])

calculate_centre_hip(left_hip_x, left_hip_y, right_hip_x, right_hip_y) ==
    <<fhalf(fadd(left_hip_x, right_hip_x)), fhalf(fadd(left_hip_y, right_hip_y))>>

Min(a, b) == IF a < b THEN a ELSE b

(***************************************************************************)
(* Per-behaviour scoring rules                                             *)
(***************************************************************************)
analyze_sitting(row, prev_row) ==
    LET left_hip_to_knee == calculate_distance(row.left_hip_x, row.left_hip_y,
                                               row.left_knee_x, row.left_knee_y)
        right_hip_to_knee == calculate_distance(row.right_hip_x, row.right_hip_y,
                                                row.right_knee_x, row.right_knee_y)
        center_hip == calculate_centre_hip(row.left_hip_x, row.left_hip_y,
                                           row.right_hip_x, row.right_hip_y)
        torso_angle == calculate_angle(<<row.head_x, row.head_y>>,
                                       <<row.torso_x, row.torso_y>>,
                                       center_hip)
        c1 == IF prev_row # None
                 /\ dist_lt(calculate_velocity(row, prev_row, "torso"), 50)
              THEN 35 ELSE 0
        c2 == IF dist_lt(left_hip_to_knee, 100) /\ dist_lt(right_hip_to_knee, 100)
              THEN 35 ELSE 0
        c3 == IF flt(100, torso_angle) /\ flt(torso_angle, 178) THEN 30 ELSE 0
    IN  Min(c1 + c2 + c3, 100)

analyze_climbing(row, prev_row) ==
    LET left_arm_extension == calculate_distance(row.left_shoulder_x, row.left_shoulder_y,
                                                 row.left_hand_x, row.left_hand_y)
        right_arm_extension == calculate_distance(row.right_shoulder_x, row.right_shoulder_y,
                                                  row.right_hand_x, row.right_hand_y)
        hands_elevated == flt(row.left_hand_y, row.torso_y)
                          /\ flt(row.right_hand_y, row.torso_y)
        feet_hanging == fgt(row.left_foot_y, row.torso_y)
                        /\ fgt(row.right_foot_y, row.torso_y)
        c1 == IF dist_gt(left_arm_extension, 125) \/ dist_gt(right_arm_extension, 125)
              THEN 40 ELSE 0
        c2 == IF hands_elevated THEN 30 ELSE 0
        c3 == IF feet_hanging THEN 30 ELSE 0
    IN  Min(c1 + c2 + c3, 100)

\* variant: the lower bound of the horizontal-movement band is inclusive
analyze_walking_inclusive(row, prev_row) ==
    LET leg_separation == calculate_distance(row.left_foot_x, row.left_foot_y,
                                             row.right_foot_x, row.right_foot_y)
        c1 == IF prev_row # None
                 /\ LET horizontal_movement == fabs(fsub(row.torso_x, prev_row.torso_x))
                    IN  ~flt(horizontal_movement, 90) /\ ~isnan(horizontal_movement)
                        /\ flt(horizontal_movement, 1000)
              THEN 50 ELSE 0
        c2 == IF dist_gt(leg_separation, 115) /\ dist_lt(leg_separation, 125)
              THEN 50 ELSE 0
    IN  Min(c1 + c2, 100)

analyze_walking(row, prev_row) ==
    LET leg_separation == calculate_distance(row.left_foot_x, row.left_foot_y,
                                             row.right_foot_x, row.right_foot_y)
        c1 == IF prev_row # None
                 /\ LET horizontal_movement == fabs(fsub(row.torso_x, prev_row.torso_x))
                    IN  flt(90, horizontal_movement) /\ flt(horizontal_movement, 1000)
              THEN 50 ELSE 0
        c2 == IF dist_gt(leg_separation, 115) /\ dist_lt(leg_separation, 125)
              THEN 50 ELSE 0
    IN  Min(c1 + c2, 100)

(***************************************************************************)
(* Per-frame orchestration                                                 *)
(***************************************************************************)
\* DataFrame.iloc[i]: zero-based, a negative i counts from the end
iloc(table, i) == IF i < 0 THEN table[Len(table) + i + 1] ELSE table[i + 1]

\* variant: the frame_idx > 0 test is missing, so frame 0 reads iloc[-1]
previous_row_unguarded(table, idx) == iloc(table, idx - 1)

previous_row_of(table, idx) == IF idx > 0 THEN iloc(table, idx - 1) ELSE None

score_frame(row, prev_row) ==
    [sitting |-> analyze_sitting(row, prev_row),
     walking |-> analyze_walking(row, prev_row),
     climbing |-> analyze_climbing(row, prev_row)]

Ratio(n, d) == [num |-> n, den |-> d]

RatLt(a, b) == a.num * b.den < b.num * a.den

RatEq(a, b) == a.num * b.den = b.num * a.den

\* variant: scales by the largest raw score instead of the total
normalize_by_max(conf) ==
    LET m1 == IF conf.sitting > conf.walking THEN conf.sitting ELSE conf.walking
        largest == IF m1 > conf.climbing THEN m1 ELSE conf.climbing
    IN  IF largest > 0
        THEN [k \in DOMAIN conf |-> Ratio(conf[k] * 100, largest)]
        ELSE [k \in DOMAIN conf |-> Ratio(conf[k], 1)]

normalize(conf) ==
    LET total == conf.sitting + conf.walking + conf.climbing
    IN  IF total > 0
        THEN [k \in DOMAIN conf |-> Ratio(conf[k] * 100, total)]
        ELSE [k \in DOMAIN conf |-> Ratio(conf[k], 1)]

analyze_frame(table, idx) ==
    normalize(score_frame(iloc(table, idx), previous_row_of(table, idx)))

\* variant: the last maximal item wins
max_item_last(conf) ==
    LET better(best, k) == IF RatLt(conf[k], conf[best]) THEN best ELSE k
        key == better(better(behaviors[1], behaviors[2]), behaviors[3])
    IN  <<key, conf[key]>>

\* max(confidences.items(), key=lambda x: x[1]): the first maximal item
max_item(conf) ==
    LET better(best, k) == IF RatLt(conf[best], conf[k]) THEN k ELSE best
        key == better(better(behaviors[1], behaviors[2]), behaviors[3])
    IN  <<key, conf[key]>>

\* variant: the threshold test is <= 40
classified_inclusive(majority) ==
    IF RatLt(Ratio(40, 1), majority[2]) THEN majority[1] ELSE "unknown"

classified(majority) ==
    IF RatLt(majority[2], Ratio(40, 1)) THEN "unknown" ELSE majority[1]

\* variant: the record is numbered with the zero-based index
frame_result_zero_based(idx, confidences) ==
    LET majority == max_item(confidences)
    IN  [Frame |-> idx,
         Sitting |-> confidences.sitting,
         Walking |-> confidences.walking,
         Climbing |-> confidences.climbing,
         ClassifiedBehavior |-> classified(majority),
         Confidence |-> majority[2]]

frame_result(idx, confidences) ==
    LET majority == max_item(confidences)
    IN  [Frame |-> idx + 1,
         Sitting |-> confidences.sitting,
         Walking |-> confidences.walking,
         Climbing |-> confidences.climbing,
         ClassifiedBehavior |-> classified(majority),
         Confidence |-> majority[2]]

(***************************************************************************)
(* Input tables: poses on the 45-degree grid, torso at (tx, ty)            *)
(***************************************************************************)
HeadOffset(hd) == CASE hd = "up" -> <<0, 0 - 80>>
                    [] hd = "lean" -> <<80, 0 - 80>>
                    [] hd = "back" -> <<0 - 80, 0 - 80>>

KneeDrop(kn) == CASE kn = "bent" -> <<60, 60>>
                  [] kn = "straight" -> <<100, 100>>
                  [] kn = "one" -> <<60, 120>>

\* <<left reach, right reach>>, positive is below the shoulder
HandDrop(ha) == CASE ha = "down" -> <<125, 125>>
                  [] ha = "long" -> <<150, 125>>
                  [] ha = "raise" -> <<0 - 60, 0 - 60>>
                  [] ha = "level" -> <<60, 60>>
                  [] ha = "reach" -> <<0 - 150, 0 - 150>>

Pose(tx, ty, hd, kn, sep, fo, ha) ==
    [head_x |-> tx + HeadOffset(hd)[1], head_y |-> ty + HeadOffset(hd)[2],
     chest_x |-> tx, chest_y |-> ty - 40,
     torso_x |-> tx, torso_y |-> ty,
     left_shoulder_x |-> tx - 30, left_shoulder_y |-> ty - 60,
     left_elbow_x |-> tx - 30, left_elbow_y |-> ty - 30,
     left_hand_x |-> tx - 30, left_hand_y |-> ty - 60 + HandDrop(ha)[1],
     right_shoulder_x |-> tx + 30, right_shoulder_y |-> ty - 60,
     right_elbow_x |-> tx + 30, right_elbow_y |-> ty - 30,
     right_hand_x |-> tx + 30, right_hand_y |-> ty - 60 + HandDrop(ha)[2],
     left_hip_x |-> tx - 20, left_hip_y |-> ty + 80,
     left_knee_x |-> tx - 20, left_knee_y |-> ty + 80 + KneeDrop(kn)[1],
     left_foot_x |-> tx - 60, left_foot_y |-> ty + fo,
     right_hip_x |-> tx + 20, right_hip_y |-> ty + 80,
     right_knee_x |-> tx + 20, right_knee_y |-> ty + 80 + KneeDrop(kn)[2],
     right_foot_x |-> tx - 60 + sep, right_foot_y |-> ty + fo]

Still == Pose(200, 400, "up", "straight", 100, 0, "down")

Rich == Pose(200, 400, "lean", "bent", 120, 200, "reach")

Columns == DOMAIN Still

NaNColumns == {"torso_x", "torso_y", "head_x", "left_hip_y", "right_knee_x",
               "left_foot_x", "left_shoulder_x", "right_hand_y"}

Rows ==
    {Pose(tx, 400, "up", "straight", 100, 0, "down") : tx \in {200, 240, 250, 290, 400, 1200}}
    \cup {Pose(200, 460, "up", "straight", 100, 0, "down")}
    \cup {Pose(200, 400, hd, "straight", 100, 0, "down") : hd \in {"lean", "back"}}
    \cup {Pose(200, 400, "up", kn, 100, 0, "down") : kn \in {"bent", "one"}}
    \cup {Pose(200, 400, "up", "straight", sep, 0, "down") : sep \in {115, 120, 125}}
    \cup {Pose(200, 400, "up", "straight", 100, 200, "down")}
    \cup {Pose(200, 400, "up", "straight", 100, 0, ha) : ha \in {"long", "raise", "level", "reach"}}
    \cup {Rich,
          Pose(200, 400, "up", "bent", 120, 0, "long"),
          Pose(200, 400, "lean", "bent", 120, 200, "raise"),
          Pose(200, 400, "lean", "straight", 100, 0, "raise"),
          Pose(400, 400, "up", "straight", 120, 200, "reach")}
    \cup {[Rich EXCEPT ![c] = NaN] : c \in NaNColumns}
    \cup {[c \in Columns |-> NaN]}

Tables == UNION {[1..n -> Rows] : n \in 0..MaxFrames}

(***************************************************************************)
(* The classifier: analyze_all_frames                                      *)
(***************************************************************************)
\* the overlay and the evaluation are separate programs: not running here
OverlayIdle ==
    /\ video_frames = 0 /\ fps = 0 /\ start_time = 0 /\ frame_interval = 0
    /\ df = <<>> /\ ov_pc = "idle" /\ frame_count = 0 /\ csv_index = 0
    /\ current_behavior = "" /\ current_confidence = 0 /\ out = <<>>

AccuracyIdle ==
    /\ predicted_data = <<>> /\ true_data = <<>> /\ acc_pc = "idle"
    /\ merged_data = <<>> /\ y_true = <<>> /\ y_pred = <<>>
    /\ accuracy = None /\ report = None /\ conf_matrix = None
    /\ mismatches = <<>>

ClassifierIdle ==
    /\ data = <<>> /\ pc = "idle" /\ frame_idx = 0 /\ results = <<>>
    /\ current_row = None /\ previous_row = None /\ raw_confidences = None
    /\ majority_item = None /\ output_csv = None /\ saved = <<>> /\ runs = 1

Init ==
    /\ data \in Tables
    /\ pc = "loop"
    /\ frame_idx = 0
    /\ results = <<>>
    /\ current_row = None
    /\ previous_row = None
    /\ raw_confidences = None
    /\ majority_item = None
    /\ output_csv = None
    /\ saved = <<>>
    /\ runs = 1
    /\ OverlayIdle
    /\ AccuracyIdle

\* one iteration of the loop over range(len(self.data))
AnalyzeFrame ==
    /\ pc = "loop"
    /\ frame_idx < Len(data)
    /\ current_row' = iloc(data, frame_idx)
    /\ previous_row' = previous_row_of(data, frame_idx)
    /\ raw_confidences' = score_frame(iloc(data, frame_idx), previous_row_of(data, frame_idx))
    /\ majority_item' = max_item(analyze_frame(data, frame_idx))
    /\ results' = Append(results, frame_result(frame_idx, analyze_frame(data, frame_idx)))
    /\ frame_idx' = frame_idx + 1
    /\ UNCHANGED <<data, pc, output_csv, saved, runs>>
    /\ UNCHANGED <<ovVars, accVars>>

\* the loop is exhausted: results_df.to_csv(output_csv)
SaveResults ==
    /\ pc = "loop"
    /\ frame_idx = Len(data)
    /\ output_csv' = results
    /\ saved' = Append(saved, results)
    /\ pc' = "done"
    /\ UNCHANGED <<data, frame_idx, results, current_row, previous_row,
                   raw_confidences, majority_item, runs>>
    /\ UNCHANGED <<ovVars, accVars>>

\* variant: the result list outlives the invocation
Reinvoke_keeping_results ==
    /\ pc = "done"
    /\ runs < MaxRuns
    /\ runs' = runs + 1
    /\ frame_idx' = 0
    /\ pc' = "loop"
    /\ UNCHANGED <<data, results, current_row, previous_row, raw_confidences,
                   majority_item, output_csv, saved>>
    /\ UNCHANGED <<ovVars, accVars>>

\* analyze_all_frames is called again on the same analyzer
Reinvoke ==
    /\ pc = "done"
    /\ runs < MaxRuns
    /\ runs' = runs + 1
    /\ results' = <<>>
    /\ frame_idx' = 0
    /\ pc' = "loop"
    /\ UNCHANGED <<data, current_row, previous_row, raw_confidences,
                   majority_item, output_csv, saved>>
    /\ UNCHANGED <<ovVars, accVars>>

Next == AnalyzeFrame \/ SaveResults \/ Reinvoke

Spec == Init /\ [][Next]_vars

(***************************************************************************)
(* Properties of the classifier                                            *)
(***************************************************************************)
Processed == Len(results) > 0

LastRecord == results[Len(results)]

RawTotal == raw_confidences.sitting + raw_confidences.walking + raw_confidences.climbing

Categories == {"sitting", "walking", "climbing"}

ConfidenceOf(r, k) == CASE k = "sitting" -> r.Sitting
                        [] k = "walking" -> r.Walking
                        [] k = "climbing" -> r.Climbing

RatLe(a, b) == ~RatLt(b, a)

\* C1: the three emitted confidences of a frame sum to 100 when a raw
\* sub-rule fired for it, and are the untouched raw zeros (no division)
\* when none fired.
C1_ConfidencesSumTo100 ==
    Processed =>
        LET r == LastRecord
        IN  IF RawTotal > 0
            THEN /\ r.Sitting.den = RawTotal
                 /\ r.Walking.den = RawTotal
                 /\ r.Climbing.den = RawTotal
                 /\ r.Sitting.num + r.Walking.num + r.Climbing.num = 100 * RawTotal
            ELSE /\ r.Sitting = Ratio(0, 1)
                 /\ r.Walking = Ratio(0, 1)
                 /\ r.Climbing = Ratio(0, 1)

C1_Witness ==
    /\ Processed
    /\ raw_confidences.sitting > 0
    /\ raw_confidences.walking > 0
    /\ raw_confidences.climbing > 0
    /\ LastRecord.Sitting.num + LastRecord.Walking.num + LastRecord.Climbing.num
         = 100 * LastRecord.Sitting.den

\* C2: the label of every emitted record is the category holding the maximum
\* normalised confidence, or "unknown" when that maximum is below 40, and
\* Confidence is that maximum in both cases.
C2_LabelIsArgmaxOrUnknown ==
    \A i \in 1..Len(results) :
        LET r == results[i]
        IN  /\ \A k \in Categories : RatLe(ConfidenceOf(r, k), r.Confidence)
            /\ \E k \in Categories : ConfidenceOf(r, k) = r.Confidence
            /\ IF RatLt(r.Confidence, Ratio(40, 1))
               THEN r.ClassifiedBehavior = "unknown"
               ELSE /\ r.ClassifiedBehavior \in Categories
                    /\ ConfidenceOf(r, r.ClassifiedBehavior) = r.Confidence

C2_Witness ==
    /\ Processed
    /\ RatEq(LastRecord.Confidence, Ratio(40, 1))
    /\ LastRecord.ClassifiedBehavior = "walking"

\* the rules as the claims state them, on rows without missing coordinates
Plain(row) == row = None \/ \A c \in DOMAIN row : row[c] # NaN

Sq(a) == a * a

D2(x1, y1, x2, y2) == Sq(x2 - x1) + Sq(y2 - y1)

Abs(a) == IF a < 0 THEN 0 - a ELSE a

TorsoAngle(row) ==
    calculate_angle(<<row.head_x, row.head_y>>, <<row.torso_x, row.torso_y>>,
                    <<(row.left_hip_x + row.right_hip_x) \div 2,
                      (row.left_hip_y + row.right_hip_y) \div 2>>)

Weight(w, cond) == IF cond THEN w ELSE 0

LowMovement(row, prev) ==
    D2(row.torso_x, row.torso_y, prev.torso_x, prev.torso_y) < Sq(50)

BentLegs(row) ==
    /\ D2(row.left_hip_x, row.left_hip_y, row.left_knee_x, row.left_knee_y) < Sq(100)
    /\ D2(row.right_hip_x, row.right_hip_y, row.right_knee_x, row.right_knee_y) < Sq(100)

UprightTorso(row) == 100 < TorsoAngle(row) /\ TorsoAngle(row) < 178

HorizontalMovement(row, prev) ==
    /\ 90 < Abs(row.torso_x - prev.torso_x)
    /\ Abs(row.torso_x - prev.torso_x) < 1000

LegSeparation(row) ==
    /\ Sq(115) < D2(row.left_foot_x, row.left_foot_y, row.right_foot_x, row.right_foot_y)
    /\ D2(row.left_foot_x, row.left_foot_y, row.right_foot_x, row.right_foot_y) < Sq(125)

LeftArmExtended(row) ==
    D2(row.left_shoulder_x, row.left_shoulder_y, row.left_hand_x, row.left_hand_y) > Sq(125)

RightArmExtended(row) ==
    D2(row.right_shoulder_x, row.right_shoulder_y, row.right_hand_x, row.right_hand_y) > Sq(125)

HandsElevated(row) == row.left_hand_y < row.torso_y /\ row.right_hand_y < row.torso_y

FeetHanging(row) == row.left_foot_y > row.torso_y /\ row.right_foot_y > row.torso_y

StatedSitting(row, prev) ==
    Weight(35, prev # None /\ LowMovement(row, prev))
    + Weight(35, BentLegs(row))
    + Weight(30, UprightTorso(row))

StatedWalking(row, prev) ==
    Weight(50, prev # None /\ HorizontalMovement(row, prev))
    + Weight(50, LegSeparation(row))

StatedClimbing(row) ==
    Weight(40, LeftArmExtended(row) \/ RightArmExtended(row))
    + Weight(30, HandsElevated(row))
    + Weight(30, FeetHanging(row))

\* C3: every raw score is the sum of the fixed weights of its sub-rules whose
\* (strict) condition holds, and lies in 0..100.
C3_RawScoresAreWeightSums ==
    Processed =>
        /\ raw_confidences.sitting \in 0..100
        /\ raw_confidences.walking \in 0..100
        /\ raw_confidences.climbing \in 0..100
        /\ (Plain(current_row) /\ Plain(previous_row)) =>
              /\ raw_confidences.sitting = StatedSitting(current_row, previous_row)
              /\ raw_confidences.walking = StatedWalking(current_row, previous_row)
              /\ raw_confidences.climbing = StatedClimbing(current_row)

C3_Witness ==
    /\ Processed
    /\ previous_row # None
    /\ Plain(current_row) /\ Plain(previous_row)
    /\ raw_confidences = [sitting |-> 100, walking |-> 50, climbing |-> 100]

\* C4: the first frame has no previous frame and gets neither movement bonus
\* (raw sitting at most 65, raw walking at most 50); every later frame uses
\* the row just before it.
C4_FirstFrameHasNoMovementBonus ==
    /\ Len(results) = 1 =>
          /\ previous_row = None
          /\ raw_confidences.sitting \in {0, 30, 35, 65}
          /\ raw_confidences.walking \in {0, 50}
    /\ Len(results) > 1 =>
          /\ previous_row = data[Len(results) - 1]
          /\ current_row = data[Len(results)]

C4_Witness ==
    /\ Len(results) = 1
    /\ Len(data) = 2
    /\ raw_confidences.sitting = 65
    /\ raw_confidences.walking = 50
    /\ Plain(data[1]) /\ Plain(data[2])
    /\ StatedSitting(data[1], data[2]) = 100

BehaviorOrder(k) == CHOOSE i \in 1..Len(behaviors) : behaviors[i] = k

\* C5: among the categories sharing the maximum normalised confidence the one
\* selected is the earliest of sitting, walking, climbing.
C5_TieBreakEarliestDeclared ==
    Processed =>
        LET r == LastRecord
            m == majority_item[1]
        IN  /\ m \in Categories
            /\ \A k \in Categories :
                  /\ RatLe(ConfidenceOf(r, k), ConfidenceOf(r, m))
                  /\ RatEq(ConfidenceOf(r, k), ConfidenceOf(r, m))
                        => BehaviorOrder(m) <= BehaviorOrder(k)

C5_Witness ==
    /\ Processed
    /\ RatEq(LastRecord.Walking, LastRecord.Climbing)
    /\ RatLt(LastRecord.Sitting, LastRecord.Walking)
    /\ majority_item[1] = "walking"
    /\ LastRecord.ClassifiedBehavior = "walking"

\* C6: the stream has one record per input frame, in input order, numbered
\* 1..N; zero frames give an empty stream.
C6_OneRecordPerFrame ==
    /\ pc = "loop" => Len(results) = frame_idx
    /\ \A i \in 1..Len(results) :
          /\ results[i].Frame = i
          /\ LET c == analyze_frame(data, i - 1)
             IN  /\ results[i].Sitting = c.sitting
                 /\ results[i].Walking = c.walking
                 /\ results[i].Climbing = c.climbing
    /\ pc = "done" =>
          /\ output_csv = results
          /\ Len(output_csv) = Len(data)

C6_Witness ==
    /\ pc = "done"
    /\ Len(data) = 2
    /\ data[1] # data[2]
    /\ Len(output_csv) = 2
    /\ output_csv[1].Frame = 1 /\ output_csv[2].Frame = 2

SameBut(r1, r2) == [r1 EXCEPT !.Frame = 0] = [r2 EXCEPT !.Frame = 0]

PairTable(i) == IF i = 1 THEN <<data[1]>> ELSE <<data[i - 1], data[i]>>

Known(row, cols) == \A c \in cols : row[c] # NaN

TorsoCols == {"torso_x", "torso_y"}

LegCols == {"left_hip_x", "left_hip_y", "left_knee_x", "left_knee_y",
            "right_hip_x", "right_hip_y", "right_knee_x", "right_knee_y"}

AngleCols == {"head_x", "head_y", "torso_x", "torso_y",
              "left_hip_x", "left_hip_y", "right_hip_x", "right_hip_y"}

FootCols == {"left_foot_x", "left_foot_y", "right_foot_x", "right_foot_y"}

LeftArmCols == {"left_shoulder_x", "left_shoulder_y", "left_hand_x", "left_hand_y"}

RightArmCols == {"right_shoulder_x", "right_shoulder_y", "right_hand_x", "right_hand_y"}

HandCols == {"left_hand_y", "right_hand_y", "torso_y"}

FootYCols == {"left_foot_y", "right_foot_y", "torso_y"}

HasNaN(row) == row # None /\ \E c \in DOMAIN row : row[c] = NaN

KnownSitting(row, prev) ==
    Weight(35, prev # None /\ Known(row, TorsoCols) /\ Known(prev, TorsoCols)
               /\ LowMovement(row, prev))
    + Weight(35, Known(row, LegCols) /\ BentLegs(row))
    + Weight(30, Known(row, AngleCols) /\ UprightTorso(row))

KnownWalking(row, prev) ==
    Weight(50, prev # None /\ Known(row, {"torso_x"}) /\ Known(prev, {"torso_x"})
               /\ HorizontalMovement(row, prev))
    + Weight(50, Known(row, FootCols) /\ LegSeparation(row))

KnownPostures(row) ==
    Weight(30, Known(row, HandCols) /\ HandsElevated(row))
    + Weight(30, Known(row, FootYCols) /\ FeetHanging(row))

EmitsNumbers ==
    \A k \in Categories :
        /\ ConfidenceOf(LastRecord, k).num \in 0..10000
        /\ ConfidenceOf(LastRecord, k).den \in 1..300

\* C8 as stated: a missing coordinate silences every sub-rule that reads it
\* (the arm-extension rule reads both arms), the other sub-rules are
\* unaffected, and the record's confidences are numbers.
C8_AsStated ==
    (Processed /\ (HasNaN(current_row) \/ HasNaN(previous_row))) =>
        /\ raw_confidences.sitting = KnownSitting(current_row, previous_row)
        /\ raw_confidences.walking = KnownWalking(current_row, previous_row)
        /\ raw_confidences.climbing =
              Weight(40, Known(current_row, LeftArmCols \cup RightArmCols)
                         /\ (LeftArmExtended(current_row) \/ RightArmExtended(current_row)))
              + KnownPostures(current_row)
        /\ EmitsNumbers

\* C8 amended: a missing coordinate makes every comparison that reads it
\* false; the arm-extension rule is a disjunction of two comparisons, one per
\* arm, and still fires through the arm whose coordinates are all present.
C8_NaNComparisonsAreFalse ==
    (Processed /\ (HasNaN(current_row) \/ HasNaN(previous_row))) =>
        /\ raw_confidences.sitting = KnownSitting(current_row, previous_row)
        /\ raw_confidences.walking = KnownWalking(current_row, previous_row)
        /\ raw_confidences.climbing =
              Weight(40, \/ Known(current_row, LeftArmCols) /\ LeftArmExtended(current_row)
                         \/ Known(current_row, RightArmCols) /\ RightArmExtended(current_row))
              + KnownPostures(current_row)
        /\ EmitsNumbers

C8_Witness ==
    /\ Processed
    /\ current_row.left_shoulder_x = NaN
    /\ Known(current_row, RightArmCols)
    /\ RightArmExtended(current_row)
    /\ raw_confidences.climbing = 100

(***************************************************************************)
(* Video overlay: add_behavior_overlay                                     *)
(*                                                                         *)
(* start_time and frame_interval are whole seconds and fps whole frames    *)
(* per second, so current_time = frame_count / fps is compared and divided *)
(* exactly: current_time >= start_time iff frame_count >= start_time*fps.  *)
(* A Confidence of the stream is carried in hundredths of a percent.       *)
(***************************************************************************)
MaxVideoFrames == 6
MaxRows == 2

StreamRows == {[ClassifiedBehavior |-> "sitting", Confidence |-> 10000],
               [ClassifiedBehavior |-> "unknown", Confidence |-> 3714],
               [ClassifiedBehavior |-> "climbing", Confidence |-> 4651]}

Streams == UNION {[1..n -> StreamRows] : n \in 0..MaxRows}

\* str.upper() on the labels of the stream
upper(label) == CASE label = "sitting" -> "SITTING"
                  [] label = "walking" -> "WALKING"
                  [] label = "climbing" -> "CLIMBING"
                  [] label = "unknown" -> "UNKNOWN"

\* f"{current_confidence:.1f}": hundredths rounded to tenths (no value of the
\* model sits on a rounding tie)
format_1f(c) == (c + 5) \div 10

\* int(a / b) for b # 0: truncation towards zero
int_div(a, b) ==
    LET q == (IF a < 0 THEN 0 - a ELSE a) \div (IF b < 0 THEN 0 - b ELSE b)
    IN  IF (a < 0) = (b < 0) THEN q ELSE 0 - q

\* variant: the start offset is not subtracted
csv_index_from_zero(count, rate, start, interval) ==
    int_div(count, interval * rate)

\* int((frame_count / fps - start_time) / frame_interval)
csv_index_at(count, rate, start, interval) ==
    int_div(count - start * rate, interval * rate)

\* variant: the test admits the index one past the last row
has_row_inclusive(idx, stream) == idx <= Len(stream)

\* if csv_index < len(df)
has_row(idx, stream) == idx < Len(stream)

\* df.iloc[idx] raises IndexError outside -len(df) .. len(df) - 1
in_bounds(idx, stream) == idx >= 0 - Len(stream) /\ idx < Len(stream)

overlay_text(behavior, confidence) ==
    [behavior |-> behavior, confidence |-> format_1f(confidence)]

InitOverlay ==
    /\ video_frames \in 0..MaxVideoFrames
    /\ fps \in {0, 1, 2}
    /\ start_time \in {0, 1, 2}
    /\ frame_interval \in {0 - 1, 0, 1, 2}
    /\ df \in Streams
    /\ ov_pc = "open"
    /\ frame_count = 0
    /\ csv_index = 0
    /\ current_behavior = ""
    /\ current_confidence = 0
    /\ out = <<>>
    /\ ClassifierIdle
    /\ AccuracyIdle

\* lines 8-54: the files are read, the video opened, the state initialised
OpenVideo ==
    /\ ov_pc = "open"
    /\ IF fps = 0
       THEN /\ ov_pc' = "raised"
            /\ UNCHANGED <<frame_count, csv_index, current_behavior, current_confidence>>
       ELSE /\ ov_pc' = "loop"
            /\ frame_count' = 0
            /\ csv_index' = 0
            /\ current_behavior' = "UNKNOWN"
            /\ current_confidence' = 10000
    /\ UNCHANGED <<video_frames, fps, start_time, frame_interval, df, out>>
    /\ UNCHANGED <<clsVars, accVars>>

\* one iteration of the while loop in which cap.read() returns a frame
ProcessVideoFrame ==
    /\ ov_pc = "loop"
    /\ frame_count < video_frames
    /\ LET shows == frame_count >= start_time * fps
           idx == csv_index_at(frame_count, fps, start_time, frame_interval)
       IN  IF shows /\ frame_interval = 0
           THEN \* ZeroDivisionError, re-raised by the except clause
                /\ ov_pc' = "raised"
                /\ UNCHANGED <<frame_count, csv_index, current_behavior,
                               current_confidence, out>>
           ELSE IF shows /\ has_row(idx, df) /\ ~in_bounds(idx, df)
           THEN \* df.iloc[csv_index] is out of bounds: IndexError, re-raised
                /\ ov_pc' = "raised"
                /\ csv_index' = idx
                /\ UNCHANGED <<frame_count, current_behavior, current_confidence, out>>
           ELSE LET reads == shows /\ has_row(idx, df)
                    behavior == IF reads THEN upper(iloc(df, idx).ClassifiedBehavior)
                                ELSE current_behavior
                    confidence == IF reads THEN iloc(df, idx).Confidence
                                  ELSE current_confidence
                IN  /\ csv_index' = IF shows THEN idx ELSE csv_index
                    /\ current_behavior' = behavior
                    /\ current_confidence' = confidence
                    /\ out' = Append(out, overlay_text(behavior, confidence))
                    /\ frame_count' = frame_count + 1
                    /\ UNCHANGED ov_pc
    /\ UNCHANGED <<video_frames, fps, start_time, frame_interval, df>>
    /\ UNCHANGED <<clsVars, accVars>>

\* cap.read() returns no frame: break, release, "Processing complete!"
EndOfVideo ==
    /\ ov_pc = "loop"
    /\ frame_count = video_frames
    /\ ov_pc' = "complete"
    /\ UNCHANGED <<video_frames, fps, start_time, frame_interval, df,
                   frame_count, csv_index, current_behavior, current_confidence, out>>
    /\ UNCHANGED <<clsVars, accVars>>

NextOverlay == OpenVideo \/ ProcessVideoFrame \/ EndOfVideo

SpecOverlay == InitOverlay /\ [][NextOverlay]_vars

\* floor(a / b) for b # 0
Floor(a, b) == IF b > 0 THEN a \div b ELSE (0 - a) \div (0 - b)

\* the video frame written k-th has frame_count = k - 1
StreamIndex(k) == Floor((k - 1) - start_time * fps, frame_interval * fps)

AfterStart(k) == (k - 1) >= start_time * fps

ShownRow(row) == overlay_text(upper(row.ClassifiedBehavior), row.Confidence)

\* C9 as stated: every written video frame at or after start_time carries the
\* label and confidence of the stream row at floor((t - start_time) / frame_interval).
C9_AsStated ==
    \A k \in 1..Len(out) :
        AfterStart(k) =>
            /\ frame_interval # 0
            /\ StreamIndex(k) \in 0..(Len(df) - 1)
            /\ out[k] = ShownRow(df[StreamIndex(k) + 1])

\* C9 amended: for a positive frame_interval, every written video frame at or
\* after start_time whose index floor((t - start_time) / frame_interval) is
\* below the stream length carries the upper-cased label and the confidence
\* of that stream row.
C9_OverlayShowsIndexedRow ==
    \A k \in 1..Len(out) :
        (AfterStart(k) /\ frame_interval > 0 /\ StreamIndex(k) < Len(df)) =>
            /\ StreamIndex(k) >= 0
            /\ out[k] = ShownRow(df[StreamIndex(k) + 1])

C9_Witness ==
    /\ start_time = 1 /\ frame_interval = 1 /\ fps = 2
    /\ Len(df) = 2 /\ df[1] # df[2]
    /\ Len(out) = 6
    /\ out[2] = overlay_text("UNKNOWN", 10000)
    /\ out[3] = ShownRow(df[1])
    /\ out[5] = ShownRow(df[2])

OverlayLabels == {"UNKNOWN", "SITTING", "WALKING", "CLIMBING"}

DefaultText == overlay_text("UNKNOWN", 10000)

\* C11: the label burned into a video frame is always defined and changes
\* only by reading an existing stream row: before start_time it is the default
\* UNKNOWN with confidence 100.0; on a frame whose computed index is at or
\* past the stream length the label and confidence shown before are kept, and
\* the loop does not read out of range there (with a positive frame_interval
\* it never raises).
C11_LabelChangesOnlyByValidRead ==
    [][ov_pc = "loop" =>
          /\ ov_pc' = "raised" => frame_interval <= 0
          /\ Len(out') = Len(out) + 1 =>
                LET shown == out'[Len(out')]
                IN  /\ shown = overlay_text(current_behavior', current_confidence')
                    /\ current_behavior' \in OverlayLabels
                    /\ frame_count < start_time * fps =>
                          /\ shown = DefaultText
                          /\ current_behavior' = current_behavior
                          /\ current_confidence' = current_confidence
                    /\ (frame_count >= start_time * fps /\ csv_index' >= Len(df)) =>
                          /\ current_behavior' = current_behavior
                          /\ current_confidence' = current_confidence
                          /\ shown = IF out = <<>> THEN DefaultText ELSE out[Len(out)]
                    /\ (current_behavior' # current_behavior
                        \/ current_confidence' # current_confidence) =>
                          \E i \in 1..Len(df) :
                              /\ current_behavior' = upper(df[i].ClassifiedBehavior)
                              /\ current_confidence' = df[i].Confidence
       ]_vars

C11_Witness ==
    /\ ov_pc = "complete"
    /\ start_time = 1 /\ frame_interval = 1 /\ fps = 2
    /\ Len(df) = 1 /\ df[1].ClassifiedBehavior = "climbing"
    /\ Len(out) = 6
    /\ out[1] = DefaultText /\ out[2] = DefaultText
    /\ out[3] = ShownRow(df[1])
    /\ csv_index = 1
    /\ out[5] = ShownRow(df[1]) /\ out[6] = ShownRow(df[1])

(***************************************************************************)
(* Accuracy evaluation: BehaviorAccuracyAnalyzer.run_analysis              *)
(***************************************************************************)
MaxPredicted == 2
MaxTruth == 2

PredictedLabels == {"sitting", "walking", "climbing", "unknown"}

TruthLabels == {"Sitting", "climbing", "unknown", "Swinging"}

PredictedStreams ==
    UNION {{[i \in 1..n |-> [Frame |-> i, ClassifiedBehavior |-> f[i]]] :
              f \in [1..n -> PredictedLabels]} : n \in 0..MaxPredicted}

TruthRows == [Frames : 1..(MaxPredicted + 1), True_Behaviour : TruthLabels]

TruthStreams == UNION {[1..n -> TruthRows] : n \in 0..MaxTruth}

\* Series.str.lower() on the labels of the two files
lower(label) == CASE label = "Sitting" -> "sitting"
                  [] label = "Swinging" -> "swinging"
                  [] OTHER -> label

\* the rows of right whose key equals the key of the left row p, in right order
RECURSIVE matches_of(_, _)
matches_of(p, right) ==
    IF right = <<>> THEN <<>>
    ELSE (IF p.Frame = Head(right).Frames
          THEN <<[Frame |-> p.Frame,
                  ClassifiedBehavior |-> p.ClassifiedBehavior,
                  Frames |-> Head(right).Frames,
                  True_Behaviour |-> Head(right).True_Behaviour]>>
          ELSE <<>>)
         \o matches_of(p, Tail(right))

\* pd.merge(left, right, left_on='Frame', right_on='Frames', how='inner')
RECURSIVE merge(_, _)
merge(left, right) ==
    IF left = <<>> THEN <<>>
    ELSE matches_of(Head(left), right) \o merge(Tail(left), right)

count_pairs(yt, yp, t, q) ==
    Cardinality({i \in 1..Len(yt) : yt[i] = t /\ yp[i] = q})

\* accuracy_score(y_true, y_pred) as correct / total
accuracy_score(yt, yp) ==
    [correct |-> Cardinality({i \in 1..Len(yt) : yt[i] = yp[i]}), total |-> Len(yt)]

\* classification_report without labels=: one row per label that occurs in
\* y_true or y_pred, with its support in y_true
classification_report(yt, yp) ==
    [l \in {yt[i] : i \in 1..Len(yt)} \cup {yp[i] : i \in 1..Len(yp)} |->
        Cardinality({i \in 1..Len(yt) : yt[i] = l})]

\* confusion_matrix(y_true, y_pred, labels=self.behaviors): a sample is
\* counted only when both of its labels are among the given labels
confusion_matrix(yt, yp) ==
    [t \in behavior_set |-> [q \in behavior_set |-> count_pairs(yt, yp, t, q)]]

InitAccuracy ==
    /\ predicted_data \in PredictedStreams
    /\ true_data \in TruthStreams
    /\ acc_pc = "prepare"
    /\ merged_data = <<>>
    /\ y_true = <<>>
    /\ y_pred = <<>>
    /\ accuracy = None
    /\ report = None
    /\ conf_matrix = None
    /\ mismatches = <<>>
    /\ ClassifierIdle
    /\ OverlayIdle

PrepareData ==
    /\ acc_pc = "prepare"
    /\ LET merged == merge(predicted_data, true_data)
       IN  /\ merged_data' = merged
           /\ y_true' = [i \in 1..Len(merged) |-> lower(merged[i].True_Behaviour)]
           /\ y_pred' = [i \in 1..Len(merged) |-> lower(merged[i].ClassifiedBehavior)]
    /\ acc_pc' = "metrics"
    /\ UNCHANGED <<predicted_data, true_data, accuracy, report, conf_matrix, mismatches>>
    /\ UNCHANGED <<clsVars, ovVars>>

\* calculate_metrics.  scikit-learn raises ValueError when y_true is not
\* empty and holds none of the given labels; whether the report of an empty
\* join raises depends on the scikit-learn version.
CalculateMetrics ==
    /\ acc_pc = "metrics"
    /\ \E report_ok \in IF y_true = <<>> THEN BOOLEAN ELSE {TRUE} :
          IF ~report_ok
          THEN /\ acc_pc' = "raised"
               /\ accuracy' = accuracy_score(y_true, y_pred)
               /\ UNCHANGED <<report, conf_matrix>>
          ELSE IF y_true # <<>> /\ \A i \in 1..Len(y_true) : y_true[i] \notin behavior_set
          THEN /\ acc_pc' = "raised"
               /\ accuracy' = accuracy_score(y_true, y_pred)
               /\ report' = classification_report(y_true, y_pred)
               /\ UNCHANGED conf_matrix
          ELSE /\ acc_pc' = "report"
               /\ accuracy' = accuracy_score(y_true, y_pred)
               /\ report' = classification_report(y_true, y_pred)
               /\ conf_matrix' = confusion_matrix(y_true, y_pred)
    /\ UNCHANGED <<predicted_data, true_data, merged_data, y_true, y_pred, mismatches>>
    /\ UNCHANGED <<clsVars, ovVars>>

\* the rest of run_analysis: the mismatched frames are selected and saved
AnalyzeFrameByFrame ==
    /\ acc_pc = "report"
    /\ mismatches' = SelectSeq(merged_data,
                               LAMBDA r : lower(r.ClassifiedBehavior) # lower(r.True_Behaviour))
    /\ acc_pc' = "done"
    /\ UNCHANGED <<predicted_data, true_data, merged_data, y_true, y_pred,
                   accuracy, report, conf_matrix>>
    /\ UNCHANGED <<clsVars, ovVars>>

NextAccuracy == PrepareData \/ CalculateMetrics \/ AnalyzeFrameByFrame

SpecAccuracy == InitAccuracy /\ [][NextAccuracy]_vars

MatrixTotal ==
    LET row(t) == conf_matrix[t]["sitting"] + conf_matrix[t]["walking"] + conf_matrix[t]["climbing"]
    IN  row("sitting") + row("walking") + row("climbing")

\* C10: every joined frame is accounted for by the evaluation: once the
\* metrics are computed, the cells of the confusion matrix add up to the
\* number of joined frames, so a frame labelled "unknown" or outside the
\* three behaviours is not dropped from it.
C10_NoJoinedFrameDropped ==
    acc_pc \in {"report", "done"} => MatrixTotal = Len(merged_data)

====
